---- MODULE Spec2Model ----
(***************************************************************************)
(* FixedDataTableContainer (store subscription, getDerivedStateFromProps,  *)
(* onStoreUpdate) and the resize/reorder handles mounted by                *)
(* ResizeReorderCell, together with the drag session tracker and the       *)
(* commit dispatcher they drive.                                           *)
(***************************************************************************)
EXTENDS Integers, Sequences, FiniteSets, TLC

VARIABLES
  store,      \* state held by the redux store (reduxStore.getState())
  listeners,  \* subscribers of the redux store
  lifecycle,  \* "constructed" | "mounted" | "unmounted" | "failed"
  props,      \* this.props of the container
  boundState, \* this.state.boundState (committed)
  instance,   \* this.unsubscribe / this.reduxStore being non-null
  columns,    \* props of the header cell of every column of the table
  session,    \* the DragSession of the tracker
  last        \* what the handler that ran last was given and did

vars ==
  <<store, listeners, lifecycle, props, boundState, instance, columns,
    session, last>>

(* ------------------------------ bounds -------------------------------- *)
MaxPropsId == 2
MaxScroll == 1
MaxWidth == 2
MaxOffset == 1
MaxOrigin == 0

(* ------------------------------ values -------------------------------- *)
\* an optional value: undefined, or a defined value v
undefined == <<>>
Defined(v) == <<v>>

HeightValues == {undefined, Defined(1)}

\* props objects of the container; id stands for the object's identity, so
\* two objects with equal fields and different ids are different objects
PropsObjects ==
  [id : 1..MaxPropsId, height : HeightValues, maxHeight : HeightValues]

ColumnKeys == {"A", "B", "C"}
Kinds == {"resize", "reorder"}
Widths == 1..MaxWidth
Offsets == (0 - MaxOffset)..MaxOffset
OffsetInputs == (0 - MaxOffset - 1)..(MaxOffset + 1)
Origins == 0..MaxOrigin

\* width, minWidth and maxWidth of a column (Column invariant:
\* minWidth <= width <= maxWidth)
Geometries ==
  { g \in [width : Widths, minWidth : Widths, maxWidth : Widths] :
      g.minWidth <= g.width /\ g.width <= g.maxWidth }

\* props of the header cells of a table whose columns have geometry g:
\* A can be resized and reordered, B (as wide as it may be) only resized,
\* C only reordered
CellProps(g) ==
  [k \in ColumnKeys |->
     [columnKey |-> k,
      width |-> IF k = "B" THEN g.maxWidth ELSE g.width,
      minWidth |-> g.minWidth,
      maxWidth |-> g.maxWidth,
      onColumnResizeEnd |->
        IF k \in {"A", "B"} THEN Defined("onColumnResizeEnd") ELSE undefined,
      onColumnReorderEnd |->
        IF k \in {"A", "C"} THEN Defined("onColumnReorderEnd") ELSE undefined]]

IdleSession == [active |-> FALSE]

Quiet(op) ==
  [op |-> op, arg |-> <<>>, error |-> "", dispatched |-> <<>>,
   notified |-> 0, setStates |-> 0, callbacks |-> <<>>]

\* a callback is invoked when the prop holding it is defined; calling an
\* undefined prop throws and invokes nothing
invoke(callback, args) ==
  IF callback = undefined THEN <<>>
  ELSE <<[name |-> callback[1], args |-> args]>>

(* ------------------------- Drag Session Tracker ----------------------- *)
InViewport(offset) == offset \in Offsets

\* mutants of beginDrag: the conflict check is missing; the conflict is
\* signalled but the active session is replaced
beginDrag_NoConflict(s, columnKey, origin, kind) ==
  [error |-> "",
   session |-> [active |-> TRUE, columnKey |-> columnKey,
                origin |-> origin, kind |-> kind, currentOffset |-> 0]]

beginDrag_Replace(s, columnKey, origin, kind) ==
  [error |-> IF s.active THEN "ConflictError" ELSE "",
   session |-> [active |-> TRUE, columnKey |-> columnKey,
                origin |-> origin, kind |-> kind, currentOffset |-> 0]]

beginDrag(s, columnKey, origin, kind) ==
  IF s.active
  THEN [error |-> "ConflictError", session |-> s]
  ELSE [error |-> "",
        session |-> [active |-> TRUE, columnKey |-> columnKey,
                     origin |-> origin, kind |-> kind, currentOffset |-> 0]]

updateDrag(s, offset) ==
  IF ~s.active \/ ~InViewport(offset) THEN s
  ELSE [s EXCEPT !.currentOffset = offset]

\* returns the last computed offset (none when idle) and clears the session
endDrag(s) ==
  [offset |-> IF s.active THEN Defined(s.currentOffset) ELSE undefined,
   session |-> IdleSession]

\* mutant of cancelDrag: the offset is discarded and the session stays active
cancelDrag_Stuck(s) == IF s.active THEN [s EXCEPT !.currentOffset = 0] ELSE s

cancelDrag(s) == IdleSession

(* --------------------------- Commit Dispatcher ------------------------ *)
clamp(x, lower, upper) ==
  IF x < lower THEN lower ELSE IF x > upper THEN upper ELSE x

\* the terminal callbacks of a gesture that ends with the given offset
commit(h, s, offset) ==
  IF s.kind = "resize"
  THEN invoke(h.onColumnResizeEnd,
              <<clamp(h.width + offset, h.minWidth, h.maxWidth), s.columnKey>>)
  ELSE invoke(h.onColumnReorderEndCallback, <<[reorderColumn |-> s.columnKey]>>)

(* ------------------------- FixedDataTableStore ------------------------ *)
tableSizeOf(p) ==
  [useMaxHeight |-> p.height = undefined,
   height |-> IF p.height = undefined THEN p.maxHeight ELSE p.height]

initialState(p) ==
  [propsReference |-> p, tableSize |-> tableSizeOf(p), scrollY |-> 0,
   firstRowIndex |-> 0, rowBufferSet |-> 0, isColumnResizing |-> FALSE,
   isColumnReordering |-> FALSE, columnResizingData |-> undefined,
   columnReorderingData |-> undefined]

\* the store's reducer: the next store state for one action
reducer(state, action) ==
  CASE action.type = "INITIALIZE" -> initialState(action.props)
    [] action.type = "PROP_CHANGE" ->
         [state EXCEPT !.propsReference = action.newProps,
                       !.tableSize = tableSizeOf(action.newProps)]
    [] action.type = "SCROLL_TO_Y" ->
         [state EXCEPT !.scrollY = action.scrollY,
                       !.firstRowIndex = action.scrollY,
                       !.rowBufferSet = action.scrollY]
    [] action.type = "COLUMN_RESIZE_START" ->
         [state EXCEPT !.isColumnResizing = TRUE,
                       !.columnResizingData = Defined(action.columnKey)]
    [] action.type = "COLUMN_RESIZE_END" ->
         [state EXCEPT !.isColumnResizing = FALSE,
                       !.columnResizingData = undefined]
    [] action.type = "COLUMN_REORDER_START" ->
         [state EXCEPT !.isColumnReordering = TRUE,
                       !.columnReorderingData = Defined(action.columnKey)]
    [] action.type = "COLUMN_REORDER_END" ->
         [state EXCEPT !.isColumnReordering = FALSE,
                       !.columnReorderingData = undefined]
    [] OTHER -> state

\* reduxStore.dispatch: the store state after a sequence of actions
RECURSIVE dispatchAll(_, _)
dispatchAll(state, actions) ==
  IF actions = <<>> THEN state
  ELSE dispatchAll(reducer(state, Head(actions)), Tail(actions))

(* ----------------------- FixedDataTableContainer ---------------------- *)
PickedFields ==
  {"columnReorderingData", "columnResizingData", "firstRowIndex",
   "isColumnReordering", "isColumnResizing", "propsReference", "scrollY",
   "tableSize"}

getBoundState(reduxState) == [f \in PickedFields |-> reduxState[f]]

\* mutants of getDerivedStateFromProps: the bound state is read before the
\* dispatch; the invariant is checked after the early return; the props are
\* compared by their fields and not by identity
getDerivedStateFromProps_Stale(nextProps, currentState, reduxState) ==
  IF ~(nextProps.height # undefined \/ nextProps.maxHeight # undefined)
  THEN [threw |-> TRUE, dispatched |-> <<>>, reduxState |-> reduxState,
        result |-> <<>>]
  ELSE IF nextProps = currentState.boundState.propsReference
  THEN [threw |-> FALSE, dispatched |-> <<>>, reduxState |-> reduxState,
        result |-> <<>>]
  ELSE LET action == [type |-> "PROP_CHANGE", newProps |-> nextProps,
                      oldProps |-> currentState.boundState.propsReference]
       IN [threw |-> FALSE, dispatched |-> <<action>>,
           reduxState |-> reducer(reduxState, action),
           result |-> <<[boundState |-> getBoundState(reduxState)]>>]

getDerivedStateFromProps_CheckAfterReturn(nextProps, currentState, reduxState) ==
  IF nextProps = currentState.boundState.propsReference
  THEN [threw |-> FALSE, dispatched |-> <<>>, reduxState |-> reduxState,
        result |-> <<>>]
  ELSE IF ~(nextProps.height # undefined \/ nextProps.maxHeight # undefined)
  THEN [threw |-> TRUE, dispatched |-> <<>>, reduxState |-> reduxState,
        result |-> <<>>]
  ELSE LET action == [type |-> "PROP_CHANGE", newProps |-> nextProps,
                      oldProps |-> currentState.boundState.propsReference]
           after == reducer(reduxState, action)
       IN [threw |-> FALSE, dispatched |-> <<action>>, reduxState |-> after,
           result |-> <<[boundState |-> getBoundState(after)]>>]

getDerivedStateFromProps_DeepEqual(nextProps, currentState, reduxState) ==
  IF ~(nextProps.height # undefined \/ nextProps.maxHeight # undefined)
  THEN [threw |-> TRUE, dispatched |-> <<>>, reduxState |-> reduxState,
        result |-> <<>>]
  ELSE IF /\ nextProps.height = currentState.boundState.propsReference.height
          /\ nextProps.maxHeight = currentState.boundState.propsReference.maxHeight
  THEN [threw |-> FALSE, dispatched |-> <<>>, reduxState |-> reduxState,
        result |-> <<>>]
  ELSE LET action == [type |-> "PROP_CHANGE", newProps |-> nextProps,
                      oldProps |-> currentState.boundState.propsReference]
           after == reducer(reduxState, action)
       IN [threw |-> FALSE, dispatched |-> <<action>>, reduxState |-> after,
           result |-> <<[boundState |-> getBoundState(after)]>>]

\* the outcome of the static method: whether the invariant threw, what it
\* dispatched, the store state it leaves, and what it returns (<<>> is null)
getDerivedStateFromProps(nextProps, currentState, reduxState) ==
  IF ~(nextProps.height # undefined \/ nextProps.maxHeight # undefined)
  THEN [threw |-> TRUE, dispatched |-> <<>>, reduxState |-> reduxState,
        result |-> <<>>]
  ELSE IF nextProps = currentState.boundState.propsReference
  THEN [threw |-> FALSE, dispatched |-> <<>>, reduxState |-> reduxState,
        result |-> <<>>]
  ELSE LET action == [type |-> "PROP_CHANGE", newProps |-> nextProps,
                      oldProps |-> currentState.boundState.propsReference]
           after == reducer(reduxState, action)
       IN [threw |-> FALSE, dispatched |-> <<action>>, reduxState |-> after,
           result |-> <<[boundState |-> getBoundState(after)]>>]

\* mutant of onStoreUpdate: a notification of a prop change is not skipped
onStoreUpdate_NoSkip(thisState, reduxState) ==
  <<[boundState |-> getBoundState(reduxState)]>>

\* the setState payloads of one store notification (none when skipped)
onStoreUpdate(thisState, reduxState) ==
  LET newBoundState == getBoundState(reduxState)
  IN IF thisState.boundState.propsReference # newBoundState.propsReference
     THEN <<>>
     ELSE <<[boundState |-> newBoundState]>>

\* the subscribers are called once after every dispatched action, with the
\* committed this.state of the component; the result is every setState payload
RECURSIVE notifyAll(_, _, _)
notifyAll(thisState, state, actions) ==
  IF actions = <<>> \/ listeners = {} THEN <<>>
  ELSE LET next == reducer(state, Head(actions))
       IN onStoreUpdate(thisState, next) \o notifyAll(thisState, next, Tail(actions))

notifications(actions) == IF listeners = {} THEN 0 ELSE Len(actions)

\* constructor(props): dispatch INITIALIZE, subscribe, read the bound state
Init ==
  \E p \in PropsObjects, g \in Geometries :
    /\ store = reducer(initialState(p), [type |-> "INITIALIZE", props |-> p])
    /\ listeners = {"onStoreUpdate"}
    /\ lifecycle = "constructed"
    /\ props = p
    /\ boundState = getBoundState(store)
    /\ instance = [unsubscribe |-> TRUE, reduxStore |-> TRUE]
    /\ session = IdleSession
    /\ columns = CellProps(g)
    /\ last = [Quiet("constructor") EXCEPT
                 !.dispatched = <<[type |-> "INITIALIZE", props |-> p]>>]

\* one render pass of the component with nextProps: getDerivedStateFromProps
\* runs on the committed state and its result is committed; a setState made
\* by a subscriber while it runs is rendered before the handler returns
Update(op, nextProps, then) ==
  LET current == [boundState |-> boundState]
      r == getDerivedStateFromProps(nextProps, current, store)
      payloads == notifyAll(current, store, r.dispatched)
  IN /\ last' = [Quiet(op) EXCEPT
                   !.arg = <<nextProps>>,
                   !.error = IF r.threw THEN "invariant" ELSE "",
                   !.dispatched = r.dispatched,
                   !.notified = notifications(r.dispatched),
                   !.setStates = Len(payloads)]
     /\ store' = r.reduxState
     /\ IF r.threw
        THEN /\ lifecycle' = IF lifecycle = "constructed" THEN "failed" ELSE lifecycle
             /\ UNCHANGED <<props, boundState>>
        ELSE /\ lifecycle' = then
             /\ props' = nextProps
             /\ boundState' =
                  IF payloads # <<>> THEN payloads[Len(payloads)].boundState
                  ELSE IF r.result = <<>> THEN boundState
                  ELSE r.result[1].boundState
     /\ UNCHANGED <<listeners, instance, columns, session>>

\* first render after the constructor
Mount ==
  /\ lifecycle = "constructed"
  /\ Update("mount", props, "mounted")

\* the parent renders the container again, with the same or another props object
ReceiveProps ==
  /\ lifecycle = "mounted"
  /\ \E nextProps \in PropsObjects : Update("receiveProps", nextProps, "mounted")

\* actions dispatched on the store by the table inside one event handler, the
\* notifications they cause, and the render of the state they set (setState
\* is rendered, through getDerivedStateFromProps, before the next event)
Dispatch(op, actions, lastFields) ==
  LET current == [boundState |-> boundState]
      payloads == notifyAll(current, store, actions)
      after == dispatchAll(store, actions)
      nextState == IF payloads = <<>> THEN current ELSE payloads[Len(payloads)]
      r == getDerivedStateFromProps(props, nextState, after)
  IN /\ store' = IF payloads = <<>> THEN after ELSE r.reduxState
     /\ boundState' =
          IF payloads = <<>> \/ r.threw THEN boundState
          ELSE IF r.result = <<>> THEN nextState.boundState
          ELSE r.result[1].boundState
     /\ last' = [lastFields EXCEPT
                   !.op = op,
                   !.dispatched = actions,
                   !.notified = notifications(actions),
                   !.setStates = Len(payloads)]

ScrollToY ==
  /\ lifecycle = "mounted"
  /\ \E y \in 0..MaxScroll :
       Dispatch("scrollToY", <<[type |-> "SCROLL_TO_Y", scrollY |-> y]>>,
                Quiet("scrollToY"))
  /\ UNCHANGED <<listeners, lifecycle, props, instance, columns, session>>

\* componentWillUnmount; the handles under the table are unmounted with it,
\* which cancels the session they own
Unmount ==
  /\ lifecycle = "mounted"
  /\ lifecycle' = "unmounted"
  /\ listeners' = IF instance.unsubscribe THEN {} ELSE listeners
  /\ instance' = [unsubscribe |-> FALSE, reduxStore |-> FALSE]
  /\ session' = cancelDrag(session)
  /\ last' = Quiet("unmount")
  /\ UNCHANGED <<store, props, boundState, columns>>

(* -------------------------- ResizeReorderCell ------------------------- *)
\* the handles a header cell renders (<<>> is null)
\* mutants of renderResizerKnob: the knob is rendered without a callback;
\* minWidth and maxWidth are passed the wrong way round
renderResizerKnob_NoGuard(p) ==
  <<[component |-> "ResizerKnob",
     onColumnResizeEnd |-> p.onColumnResizeEnd,
     width |-> p.width, minWidth |-> p.minWidth,
     maxWidth |-> p.maxWidth, columnKey |-> p.columnKey]>>

renderResizerKnob_SwappedBounds(p) ==
  IF p.onColumnResizeEnd = undefined THEN <<>>
  ELSE <<[component |-> "ResizerKnob",
          onColumnResizeEnd |-> p.onColumnResizeEnd,
          width |-> p.width, minWidth |-> p.maxWidth,
          maxWidth |-> p.minWidth, columnKey |-> p.columnKey]>>

renderResizerKnob(p) ==
  IF p.onColumnResizeEnd = undefined THEN <<>>
  ELSE <<[component |-> "ResizerKnob",
          onColumnResizeEnd |-> p.onColumnResizeEnd,
          width |-> p.width, minWidth |-> p.minWidth,
          maxWidth |-> p.maxWidth, columnKey |-> p.columnKey]>>

renderReorderHandle(p) ==
  IF p.onColumnReorderEnd = undefined THEN <<>>
  ELSE <<[component |-> "ReorderHandle",
          onColumnReorderStart |-> Defined("onColumnReorderStart"),
          columnKey |-> p.columnKey,
          onColumnReorderEndCallback |-> p.onColumnReorderEnd]>>

render(p) ==
  IF p.onColumnReorderEnd # undefined
  THEN renderReorderHandle(p) \o renderResizerKnob(p)
  ELSE renderResizerKnob(p)

ComponentOf(kind) == IF kind = "resize" THEN "ResizerKnob" ELSE "ReorderHandle"

\* the handles of this kind that the header cell of column k renders
Handles(k, kind) ==
  { h \in { render(columns[k])[i] : i \in 1..Len(render(columns[k])) } :
      h.component = ComponentOf(kind) }

\* the props of the handle that owns the session s
HandleOf(s) == CHOOSE h \in Handles(s.columnKey, s.kind) : TRUE

(* ---------------------------- the gestures ---------------------------- *)
startCallbacks(h, kind) ==
  IF kind = "reorder" THEN invoke(h.onColumnReorderStart, <<h.columnKey>>)
  ELSE <<>>

startAction(kind, columnKey) ==
  [type |-> IF kind = "resize" THEN "COLUMN_RESIZE_START"
            ELSE "COLUMN_REORDER_START",
   columnKey |-> columnKey]

endAction(kind) ==
  [type |-> IF kind = "resize" THEN "COLUMN_RESIZE_END"
            ELSE "COLUMN_REORDER_END"]

\* pointer down on a rendered handle
BeginDrag ==
  /\ lifecycle = "mounted"
  /\ \E k \in ColumnKeys, kind \in Kinds, origin \in Origins :
       \E h \in Handles(k, kind) :
         LET r == beginDrag(session, h.columnKey, origin, kind)
         IN /\ session' = r.session
            /\ IF r.error # ""
               THEN /\ last' = [Quiet("beginDrag") EXCEPT !.error = r.error]
                    /\ UNCHANGED <<store, boundState>>
               ELSE Dispatch("beginDrag", <<startAction(kind, h.columnKey)>>,
                             [Quiet("beginDrag") EXCEPT
                                !.callbacks = startCallbacks(h, kind)])
  /\ UNCHANGED <<listeners, lifecycle, props, instance, columns>>

\* pointer move
UpdateDrag ==
  /\ lifecycle = "mounted"
  /\ \E offset \in OffsetInputs :
       /\ session' = updateDrag(session, offset)
       /\ last' = Quiet("updateDrag")
  /\ UNCHANGED <<store, listeners, lifecycle, props, boundState, instance,
                 columns>>

\* pointer up
EndDrag ==
  /\ lifecycle = "mounted"
  /\ LET r == endDrag(session)
     IN /\ session' = r.session
        /\ IF session.active
           THEN Dispatch("endDrag", <<endAction(session.kind)>>,
                         [Quiet("endDrag") EXCEPT
                            !.arg = r.offset,
                            !.callbacks = commit(HandleOf(session), session, r.offset[1])])
           ELSE /\ last' = Quiet("endDrag")
                /\ UNCHANGED <<store, boundState>>
  /\ UNCHANGED <<listeners, lifecycle, props, instance, columns>>

\* pointer leave or an external reset
CancelDrag ==
  /\ lifecycle = "mounted"
  /\ session' = cancelDrag(session)
  /\ IF session.active
     THEN Dispatch("cancelDrag", <<endAction(session.kind)>>, Quiet("cancelDrag"))
     ELSE /\ last' = Quiet("cancelDrag")
          /\ UNCHANGED <<store, boundState>>
  /\ UNCHANGED <<listeners, lifecycle, props, instance, columns>>

Next ==
  \/ Mount
  \/ ReceiveProps
  \/ ScrollToY
  \/ Unmount
  \/ BeginDrag
  \/ UpdateDrag
  \/ EndDrag
  \/ CancelDrag

Spec == Init /\ [][Next]_vars

\* the handlers that read or write the session or the lifecycle
GestureNext ==
  \/ Mount
  \/ Unmount
  \/ BeginDrag
  \/ UpdateDrag
  \/ EndDrag
  \/ CancelDrag

\* pointer up and pointer leave are delivered while a gesture lasts
FairSpec == Init /\ [][GestureNext]_vars /\ WF_vars(EndDrag \/ CancelDrag)

(* ------------------------------ properties ---------------------------- *)
UpdateOps == {"mount", "receiveProps"}
HasHeight(p) == p.height # undefined \/ p.maxHeight # undefined
TerminalCallbacks == {"onColumnResizeEnd", "onColumnReorderEnd"}
TerminalCount(cbs) ==
  Cardinality({ i \in 1..Len(cbs) : cbs[i].name \in TerminalCallbacks })
PropChange(newProps, oldProps) ==
  [type |-> "PROP_CHANGE", newProps |-> newProps, oldProps |-> oldProps]
Smaller(a, b) == IF a < b THEN a ELSE b
Larger(a, b) == IF a < b THEN b ELSE a

\* C1: a resize session and a reorder session are never active together:
\* the store and the bound state never flag both, and while the table is
\* mounted the flags are those of the one session of the tracker
C1_AtMostOneSession ==
  /\ ~(store.isColumnResizing /\ store.isColumnReordering)
  /\ ~(boundState.isColumnResizing /\ boundState.isColumnReordering)
  /\ lifecycle = "mounted" =>
       /\ store.isColumnResizing <=> (session.active /\ session.kind = "resize")
       /\ store.isColumnReordering <=> (session.active /\ session.kind = "reorder")

C1_Witness ==
  /\ last.op = "beginDrag" /\ last.error = "ConflictError"
  /\ session.active /\ session.kind = "resize" /\ store.isColumnResizing

\* C2: beginDrag while a session is active fails with ConflictError and
\* leaves the session and the store as they were
C2_ConflictRejected ==
  [][(session.active /\ last'.op = "beginDrag") =>
       /\ last'.error = "ConflictError"
       /\ session' = session
       /\ store' = store
       /\ last'.dispatched = <<>> /\ last'.callbacks = <<>>]_vars

C2_Witness ==
  /\ last.op = "beginDrag" /\ last.error = "ConflictError"
  /\ session.active /\ session.kind = "reorder" /\ session.currentOffset # 0

\* C3: a handler emits one terminal callback, that of the session's kind,
\* when it is endDrag on an active session, and none in every other case
\* (cancelDrag, unmount, a session still active, an idle tracker)
C3_TerminalCallbacks ==
  [][/\ TerminalCount(last'.callbacks) =
          IF session.active /\ last'.op = "endDrag" THEN 1 ELSE 0
     /\ (session.active /\ last'.op = "endDrag") =>
          /\ ~session'.active
          /\ last'.callbacks[1].name =
               IF session.kind = "resize" THEN "onColumnResizeEnd"
               ELSE "onColumnReorderEnd"]_vars

C3_Witness ==
  /\ last.op = "endDrag" /\ ~session.active
  /\ Len(last.callbacks) = 1 /\ last.callbacks[1].name = "onColumnReorderEnd"

\* C4: endDrag of a resize session emits onColumnResizeEnd(newWidth, columnKey)
\* with newWidth the column's width plus the final offset, clamped to the
\* column's minWidth and maxWidth, and the columnKey of the session
C4_ResizeCommit ==
  [][(session.active /\ session.kind = "resize" /\ last'.op = "endDrag") =>
       last'.callbacks =
         <<[name |-> "onColumnResizeEnd",
            args |-> <<Smaller(Larger(columns[session.columnKey].width
                                        + session.currentOffset,
                                      columns[session.columnKey].minWidth),
                               columns[session.columnKey].maxWidth),
                       session.columnKey>>]>>]_vars

\* a resize of A by +MaxOffset was committed with the width clamped to
\* maxWidth, in a table where minWidth < maxWidth
C4_Witness ==
  /\ last.op = "endDrag" /\ last.arg = <<MaxOffset>>
  /\ columns["A"].minWidth < columns["A"].maxWidth
  /\ columns["A"].width + MaxOffset > columns["A"].maxWidth
  /\ last.callbacks =
       <<[name |-> "onColumnResizeEnd",
          args |-> <<columns["A"].maxWidth, "A">>]>>

\* C5: while the container is constructed or mounted, once a handler has run
\* the bound state is the projection of the store's current state
C5_BoundStateIsProjection ==
  lifecycle \in {"constructed", "mounted"} => boundState = getBoundState(store)

C5_Witness ==
  /\ lifecycle = "mounted" /\ last.op = "receiveProps" /\ last.dispatched # <<>>
  /\ boundState.scrollY > 0 /\ boundState.isColumnReordering
  /\ boundState.propsReference = props

C7_InvariantError ==
  [][(last'.op \in UpdateOps /\ ~HasHeight(last'.arg[1])) =>
       /\ last'.error = "invariant"
       /\ last'.dispatched = <<>>
       /\ store' = store
       /\ boundState' = boundState]_vars

C7_Witness ==
  /\ lifecycle = "failed" /\ last.op = "mount" /\ last.error = "invariant"
  /\ last.arg = <<boundState.propsReference>>

\* C8 as stated: PROP_CHANGE is dispatched if and only if nextProps is not
\* the propsReference
C8_Original ==
  [][last'.op \in UpdateOps =>
       ((last'.arg[1] # boundState.propsReference)
          <=> (Len(last'.dispatched) = 1 /\ last'.dispatched[1].type = "PROP_CHANGE"))]_vars

\* C8 amended: for props that have a height or a maxHeight, nothing is
\* dispatched and store and bound state are unchanged when nextProps is the
\* propsReference; otherwise exactly one PROP_CHANGE with newProps = nextProps
\* and oldProps = the previous propsReference is dispatched and the bound
\* state is the one read from the store after the dispatch
C8_PropChangeIffNewProps ==
  [][(last'.op \in UpdateOps /\ HasHeight(last'.arg[1])) =>
       IF last'.arg[1] = boundState.propsReference
       THEN last'.dispatched = <<>> /\ store' = store /\ boundState' = boundState
       ELSE /\ last'.dispatched =
                 <<PropChange(last'.arg[1], boundState.propsReference)>>
            /\ store'.propsReference = last'.arg[1]
            /\ boundState' = getBoundState(store')]_vars

C8_Witness ==
  /\ last.op = "receiveProps" /\ Len(last.dispatched) = 1
  /\ last.dispatched[1].newProps.id # last.dispatched[1].oldProps.id
  /\ last.dispatched[1].newProps.height = last.dispatched[1].oldProps.height
  /\ last.dispatched[1].newProps.maxHeight = last.dispatched[1].oldProps.maxHeight
  /\ boundState.propsReference = last.dispatched[1].newProps

\* C9: the notification of a PROP_CHANGE dispatched by
\* getDerivedStateFromProps calls no setState; the notification of any other
\* action finds the propsReference unchanged and calls setState with the
\* projection of the store
C9_NotificationSkipped ==
  [][/\ (last'.op \in UpdateOps /\ last'.dispatched # <<>>) =>
          /\ store'.propsReference # boundState.propsReference
          /\ last'.notified = 1 /\ last'.setStates = 0
     /\ (last'.op \notin UpdateOps /\ last'.notified > 0) =>
          /\ store'.propsReference = boundState.propsReference
          /\ last'.setStates = last'.notified
          /\ boundState' = getBoundState(store')]_vars

C9_Witness ==
  /\ last.op = "receiveProps" /\ last.notified = 1 /\ last.setStates = 0
  /\ last.dispatched # <<>> /\ boundState.scrollY > 0
====
